---- MODULE Spec2Model ----
(***************************************************************************)
(* The persistent queue of baetyl-broker (queue/persistence.go): three     *)
(* workers (writing, reading, deleting) around one bucket of the store,    *)
(* with producers (Push), one consumer (Pop / Chan, acknowledge), the      *)
(* expiry ticker, Disable and Close.                                       *)
(*                                                                         *)
(* Every step that touches a channel, the mutex-protected fields or the    *)
(* bucket is one action; a worker's position is kept in its pc variable.   *)
(***************************************************************************)
EXTENDS Integers, Sequences, FiniteSets

\* ---------------------------------------------------------------- bounds
\* cfg.BatchSize: capacity of input, output and edel, and the flush size
BatchSize == 2
\* cfg.MaxBatchCacheSize: number of batches the cache may hold
MaxBatchCacheSize == 1
\* number of events the producers push over the whole run
MaxEvents == 3
\* the wall clock runs from 0 to MaxNow
MaxNow == 1
\* cfg.ExpireTime in ticks of the clock: an event is expired as soon as the
\* clock is ExpireTime past its timestamp
ExpireTime == 0
\* how often the queue is opened over the same bucket
MaxOpens == 2

VARIABLES
    \* Persistence fields
    offset,     \* q.offset
    cache,      \* q.cache: sequence of batchMsgs [offset, data]
    disable,    \* q.disable
    input,      \* q.input  (chan *common.Event, cap BatchSize)
    output,     \* q.output (chan *common.Event, cap BatchSize)
    edel,       \* q.edel   (chan uint64, cap BatchSize)
    eget,       \* q.eget   (chan bool, cap 1): TRUE when a pump is pending
    dying,      \* q.Tomb: the dying signal
    \* the bucket of the store
    bucket,     \* set of stored records [id, ts, eid]
    \* writing()
    wpc, wbuf, wexit,
    \* reading()
    rpc, begin, rend, rbuf,
    \* deleting()
    dpc, dbuf, dexit,
    \* environment
    now,        \* wall clock
    nextEid,    \* identity of the next event a producer pushes
    unacked,    \* offsets the consumer received and has not acknowledged yet
    cpc,        \* Close: "open", "waiting" (after Kill, in Wait), "closed"
    cclean,     \* the clean flag of the running Close
    cerr,       \* whether the last Close returned an error
    opens,      \* number of NewPersistence calls so far
    \* history
    putEids,    \* eids of the events stored by a successful Put
    doneFired,  \* eids of the producer events whose Done() was called
    stamped,    \* offsets given to persisted events since the queue opened
    openMax,    \* bucket.MaxOffset() as read by NewPersistence
    prevMax,    \* greatest offset assigned in earlier opens of the bucket
    maxSent,    \* greatest offset sent on output since the queue opened
    swept,      \* eids of the records removed by completed expiry sweeps
    failed,     \* eids of the events whose flush failed (marshal or put)
    killInput,  \* while Close waits: how many events at the head of input
                \* were accepted by Push before Close called Kill
    killEdel    \* while Close waits: how many offsets at the head of edel
                \* were accepted by acknowledge before Close called Kill

qvars == <<offset, cache, disable>>
chans == <<input, output, edel, eget>>
wvars == <<wpc, wbuf, wexit>>
rvars == <<rpc, begin, rend, rbuf>>
dvars == <<dpc, dbuf, dexit>>
env   == <<now, nextEid, unacked, cpc, cclean, cerr, opens>>
hist  == <<putEids, doneFired, stamped, openMax, prevMax, maxSent, swept,
           failed, killInput, killEdel>>
vars  == <<qvars, chans, dying, bucket, wvars, rvars, dvars, env, hist>>

\* ------------------------------------------------------------- helpers
Max(S) == IF S = {} THEN 0 ELSE CHOOSE x \in S : \A y \in S : y <= x
Min(S) == IF S = {} THEN 0 ELSE CHOOSE x \in S : \A y \in S : x <= y
Range(s) == {s[i] : i \in 1..Len(s)}
Last(s) == s[Len(s)]
Ids(S) == {r.id : r \in S}

\* common.Event as the queue sees it: Context.ID, Context.TS and the identity
\* of the producer's event (whose Done / content it carries)
Event(id, ts, eid) == [id |-> id, ts |-> ts, eid |-> eid]

\* The records of S in ascending order of offset
RECURSIVE Ascending(_)
Ascending(S) ==
    IF S = {} THEN <<>>
    ELSE LET r == CHOOSE x \in S : \A y \in S : x.id <= y.id
         IN  <<r>> \o Ascending(S \ {r})

\* ------------------------------------------------- the bucket (store)
\* put(begin, records): the records are stored under begin, begin+1, ...;
\* it fails when one of these offsets exists
PutOffsets(b, n) == b .. (b + n - 1)
PutAllowed(B, b, n) == PutOffsets(b, n) \cap Ids(B) = {}
BucketPut(B, recs) == B \cup Range(recs)

\* get(begin, end, cb): the records with begin <= offset < end, ascending
BucketGet(B, b, e) == Ascending({r \in B : b <= r.id /\ r.id < e})

\* min_offset() / max_offset(): 0 when the bucket is empty
MinOffset(B) == Min(Ids(B))
MaxOffset(B) == Max(Ids(B))

\* delete_before(id): removes the offsets < id
DelBeforeID(B, id) == {r \in B : r.id >= id}

\* delete_before_timestamp(ts): removes the records with timestamp < ts
DelBeforeTS(B, ts) == {r \in B : r.ts >= ts}

\* (a close that ignores the clean flag)
BucketCloseKeep(B, clean) == B

\* close(clean): boltBucket.Close deletes the namespace when clean
BucketClose(B, clean) == IF clean THEN {} ELSE B

\* its error: tx.DeleteBucket fails when the namespace does not exist
BucketCloseErr(exists, clean) == clean /\ ~exists

\* ------------------------------------------------------------ Init
\* NewPersistence over a fresh bucket: offset = MaxOffset() = 0, the channels
\* are empty, trigger() has posted the first pump, the workers are started
Init ==
    /\ bucket = {}
    /\ offset = 0 /\ cache = <<>> /\ disable = FALSE
    /\ input = <<>> /\ output = <<>> /\ edel = <<>> /\ eget = TRUE
    /\ dying = FALSE
    /\ wpc = "select" /\ wbuf = <<>> /\ wexit = FALSE
    /\ rpc = "start" /\ begin = 0 /\ rend = 0 /\ rbuf = <<>>
    /\ dpc = "select" /\ dbuf = <<>> /\ dexit = FALSE
    /\ now = 0 /\ nextEid = 1 /\ unacked = {}
    /\ cpc = "open" /\ cclean = FALSE /\ cerr = FALSE /\ opens = 1
    /\ putEids = {} /\ doneFired = {} /\ stamped = <<>> /\ openMax = 0 /\ prevMax = 0
    /\ maxSent = 0 /\ swept = {} /\ failed = {}
    /\ killInput = 0 /\ killEdel = 0

\* ------------------------------------------------------------ Push
\* Push: select { q.input <- e ; <-q.Dying() }.  Both cases can be ready at
\* once and select takes either.  The event carries the timestamp of the
\* producer, here the wall clock.
PushSend ==
    /\ nextEid <= MaxEvents
    /\ Len(input) < BatchSize
    /\ input' = Append(input, Event(0, now, nextEid))
    /\ nextEid' = nextEid + 1
    /\ UNCHANGED <<qvars, output, edel, eget, dying, bucket, wvars, rvars,
                   dvars, now, unacked, cpc, cclean, cerr,
                   opens, hist>>

\* Push returns ErrQueueClosed: nothing is enqueued, the event is dropped
PushClosed ==
    /\ nextEid <= MaxEvents
    /\ dying
    /\ nextEid' = nextEid + 1
    /\ UNCHANGED <<qvars, chans, dying, bucket, wvars, rvars, dvars, now,
                   unacked, cpc, cclean, cerr,
                   opens, hist>>

\* --------------------------------------------------------- writing()
WRet == IF wexit THEN "exited" ELSE "select"

\* case e := <-q.input: append; a full buffer is flushed by add
WritingRecv ==
    /\ wpc = "select" /\ input # <<>>
    /\ wbuf' = Append(wbuf, Head(input))
    /\ input' = Tail(input)
    /\ wpc' = IF Len(wbuf') = BatchSize THEN "add" ELSE "select"
    /\ killInput' = IF killInput > 0 THEN killInput - 1 ELSE 0
    /\ UNCHANGED <<qvars, output, edel, eget, dying, bucket, wexit, rvars,
                   dvars, env, putEids, doneFired, stamped, openMax, prevMax, maxSent,
                   swept, failed, killEdel>>

\* case <-timer.C: add(buf); add returns at once on an empty buffer
WritingTimeout ==
    /\ wpc = "select" /\ wbuf # <<>>
    /\ wpc' = "add"
    /\ UNCHANGED <<qvars, chans, dying, bucket, wbuf, wexit, rvars, dvars,
                   env, hist>>

\* case <-q.Dying(): add(buf); return nil
WritingDying ==
    /\ wpc = "select" /\ dying
    /\ wexit' = TRUE
    /\ wpc' = IF wbuf = <<>> THEN "exited" ELSE "add"
    /\ UNCHANGED <<qvars, chans, dying, bucket, wbuf, rvars, dvars, env, hist>>

\* add, lines 232-257: the events of buf get the offsets q.offset+1, ...
RECURSIVE Stamp(_, _)
Stamp(buf, off) ==
    IF buf = <<>> THEN <<>>
    ELSE <<Event(off + 1, Head(buf).ts, Head(buf).eid)>> \o Stamp(Tail(buf), off + 1)

Eids(buf) == {buf[i].eid : i \in 1..Len(buf)}

\* add, line 260 with err == nil
AddPut ==
    /\ wpc = "add"
    /\ PutAllowed(bucket, offset + 1, Len(wbuf))
    /\ bucket' = BucketPut(bucket, Stamp(wbuf, offset))
    /\ stamped' = stamped \o [i \in 1..Len(wbuf) |-> offset + i]
    /\ putEids' = putEids \cup Eids(wbuf)
    /\ wpc' = "done"
    /\ UNCHANGED <<qvars, chans, dying, wbuf, wexit, rvars, dvars, env,
                   doneFired, openMax, prevMax, maxSent, swept,
                   failed, killInput, killEdel>>

\* (a batcher that reports the events of a failed flush as Done)
AddFailDone ==
    /\ wpc = "add"
    /\ failed' = failed \cup Eids(wbuf)
    /\ doneFired' = doneFired \cup Eids(wbuf)
    /\ wbuf' = <<>>
    /\ wpc' = WRet
    /\ UNCHANGED <<qvars, chans, dying, bucket, wexit, rvars, dvars, env,
                   putEids, stamped, openMax, prevMax, maxSent, swept,
                   killInput, killEdel>>

\* add, lines 249-254 and 283-286: proto.Marshal or bucket.Put fails; the
\* buffer is dropped
AddFail ==
    /\ wpc = "add"
    /\ failed' = failed \cup Eids(wbuf)
    /\ wbuf' = <<>>
    /\ wpc' = WRet
    /\ UNCHANGED <<qvars, chans, dying, bucket, wexit, rvars, dvars, env,
                   putEids, doneFired, stamped, openMax, prevMax, maxSent, swept,
                   killInput, killEdel>>

\* (a batcher that fires Done only when the egress channel has room)
AddDoneWaits ==
    /\ wpc = "done"
    /\ Len(output) < BatchSize
    /\ doneFired' = doneFired \cup Eids(wbuf)
    /\ wpc' = "lock"
    /\ UNCHANGED <<qvars, chans, dying, bucket, wbuf, wexit, rvars, dvars,
                   env, putEids, stamped, openMax, prevMax, maxSent, swept,
                   failed, killInput, killEdel>>

\* add, lines 262-264: e.Done() for every event of buf
AddDone ==
    /\ wpc = "done"
    /\ doneFired' = doneFired \cup Eids(wbuf)
    /\ wpc' = "lock"
    /\ UNCHANGED <<qvars, chans, dying, bucket, wbuf, wexit, rvars, dvars,
                   env, putEids, stamped, openMax, prevMax, maxSent, swept,
                   failed, killInput, killEdel>>

\* (a critical section that caches every batch, whatever the cache holds)
AddCacheAlways(c, buf, off) ==
    Append(c, [offset |-> off + 1, data |-> Stamp(buf, off)])

\* add, lines 266-279: the critical section
AddCache(c, buf, off) ==
    IF Len(c) < MaxBatchCacheSize
    THEN Append(c, [offset |-> off + 1, data |-> Stamp(buf, off)])
    ELSE c

\* (a critical section that caches the batch and forgets to advance q.offset)
AddOffsetStale(off, buf) == off

AddOffset(off, buf) == off + Len(buf)

AddLock ==
    /\ wpc = "lock"
    /\ IF disable
       THEN /\ wbuf' = <<>>
            /\ wpc' = WRet
            /\ UNCHANGED <<offset, cache>>
       ELSE /\ cache' = AddCache(cache, wbuf, offset)
            /\ offset' = AddOffset(offset, wbuf)
            /\ wpc' = "trigger"
            /\ UNCHANGED wbuf
    /\ UNCHANGED <<disable, chans, dying, bucket, wexit, rvars, dvars, env, hist>>

\* (a batcher that returns without posting the pump)
AddTriggerLost ==
    /\ wpc = "trigger"
    /\ wbuf' = <<>>
    /\ wpc' = WRet
    /\ UNCHANGED <<qvars, chans, dying, bucket, wexit, rvars, dvars, env, hist>>

\* add, line 282: q.trigger(), then return []
AddTrigger ==
    /\ wpc = "trigger"
    /\ eget' = TRUE
    /\ wbuf' = <<>>
    /\ wpc' = WRet
    /\ UNCHANGED <<qvars, input, output, edel, dying, bucket, wexit, rvars,
                   dvars, env, hist>>

\* --------------------------------------------------------- reading()
\* lines 128-135: begin = MinOffset(), 1 for an empty bucket
ReadingStart ==
    /\ rpc = "start"
    /\ begin' = IF MinOffset(bucket) = 0 THEN 1 ELSE MinOffset(bucket)
    /\ rpc' = "idle"
    /\ UNCHANGED <<qvars, chans, dying, bucket, wvars, rend, rbuf, dvars,
                   env, hist>>

\* lines 129-132: MinOffset() fails and reading returns the error; a worker
\* of the tomb that returns an error kills the tomb
ReadingStartFail ==
    /\ rpc = "start"
    /\ rpc' = "exited"
    /\ dying' = TRUE
    /\ UNCHANGED <<qvars, chans, bucket, wvars, begin, rend, rbuf, dvars,
                   env, hist>>

\* lines 144-158, the critical section of a pump: the batch taken from the
\* cache (empty when the head of the cache does not begin at b) ...
PumpHit(c, b) == Len(c) > 0 /\ c[1].offset = b
PumpBuf(c, b) == IF PumpHit(c, b) THEN c[1].data ELSE <<>>
PumpCache(c, b) == IF PumpHit(c, b) THEN Tail(c) ELSE c
\* (a reader that bounds its range by the batch size alone, not by q.offset)
PumpEndAhead(c, off, b) == b + BatchSize

\* ... and the end of the range to read
PumpEnd(c, off, b) ==
    LET e0 == IF Len(c) > 0 THEN c[1].offset ELSE 0
        e1 == IF e0 = 0 THEN off + 1 ELSE e0
    IN  IF b + BatchSize < e1 THEN b + BatchSize ELSE e1

\* case <-q.eget, lines 139-170 up to the store read
ReadingPump ==
    /\ rpc = "idle" /\ eget
    /\ eget' = FALSE
    /\ cache' = PumpCache(cache, begin)
    /\ rend' = PumpEnd(cache, offset, begin)
    /\ rbuf' = PumpBuf(cache, begin)
    /\ rpc' = IF Len(rbuf') > 0 THEN "send"
              ELSE IF begin # rend' THEN "get" ELSE "idle"
    /\ UNCHANGED <<offset, disable, input, output, edel, dying, bucket, wvars,
                   begin, dvars, env, hist>>

\* q.get(begin, end), lines 161 and 168-170: an empty result ends the pump
ReadingGet ==
    /\ rpc = "get"
    /\ rbuf' = BucketGet(bucket, begin, rend)
    /\ rpc' = IF Len(rbuf') = 0 THEN "idle" ELSE "send"
    /\ UNCHANGED <<qvars, chans, dying, bucket, wvars, begin, rend, dvars,
                   env, hist>>

\* lines 162-165: the store read fails (I/O, empty value, decoding)
ReadingGetFail ==
    /\ rpc = "get"
    /\ rpc' = "idle"
    /\ UNCHANGED <<qvars, chans, dying, bucket, wvars, begin, rend, rbuf,
                   dvars, env, hist>>

\* lines 171-181: q.output <- e; after the last event of the buffer
\* begin = last ID + 1 and trigger()
\* (a reader that forgets to move its cursor)
NextBeginStale(b, buf) == b

NextBegin(b, buf) == IF Len(buf) = 1 THEN buf[1].id + 1 ELSE b

ReadingSend ==
    /\ rpc = "send"
    /\ Len(output) < BatchSize
    /\ output' = Append(output, Head(rbuf))
    /\ rbuf' = Tail(rbuf)
    /\ begin' = NextBegin(begin, rbuf)
    /\ eget' = IF Len(rbuf) = 1 THEN TRUE ELSE eget
    /\ rpc' = IF Len(rbuf) = 1 THEN "idle" ELSE "send"
    /\ maxSent' = IF Head(rbuf).id > maxSent THEN Head(rbuf).id ELSE maxSent
    /\ UNCHANGED <<qvars, input, edel, dying, bucket, wvars, rend, dvars, env,
                   putEids, doneFired, stamped, openMax, prevMax, swept, failed,
                   killInput, killEdel>>

\* (a reader whose send loop does not watch the dying signal)
ReadingDyingIdle ==
    /\ rpc = "idle" /\ dying
    /\ rpc' = "exited"
    /\ UNCHANGED <<qvars, chans, dying, bucket, wvars, begin, rend, rbuf,
                   dvars, env, hist>>

\* case <-q.Dying() of either select (lines 174 and 182)
ReadingDying ==
    /\ rpc \in {"idle", "send"} /\ dying
    /\ rpc' = "exited"
    /\ UNCHANGED <<qvars, chans, dying, bucket, wvars, begin, rend, rbuf,
                   dvars, env, hist>>

\* -------------------------------------------------------- deleting()
DRet == IF dexit THEN "exited" ELSE "select"

\* case e := <-q.edel
DeletingRecv ==
    /\ dpc = "select" /\ edel # <<>>
    /\ dbuf' = Append(dbuf, Head(edel))
    /\ edel' = Tail(edel)
    /\ dpc' = IF Len(dbuf') = BatchSize THEN "delete" ELSE "select"
    /\ killEdel' = IF killEdel > 0 THEN killEdel - 1 ELSE 0
    /\ UNCHANGED <<qvars, input, output, eget, dying, bucket, wvars, rvars,
                   dexit, env, putEids, doneFired, stamped, openMax, prevMax, maxSent,
                   swept, failed, killInput>>

\* case <-timer.C: delete(buf); delete returns at once on an empty buffer
DeletingTimeout ==
    /\ dpc = "select" /\ dbuf # <<>>
    /\ dpc' = "delete"
    /\ UNCHANGED <<qvars, chans, dying, bucket, wvars, rvars, dbuf, dexit,
                   env, hist>>

\* case <-q.Dying(): delete(buf); return nil
DeletingDying ==
    /\ dpc = "select" /\ dying
    /\ dexit' = TRUE
    /\ dpc' = IF dbuf = <<>> THEN "exited" ELSE "delete"
    /\ UNCHANGED <<qvars, chans, dying, bucket, wvars, rvars, dbuf, env, hist>>

\* delete, line 332: the bound handed to the bucket
DeleteID(buf) == buf[Len(buf)]

\* delete, lines 335-339
Delete ==
    /\ dpc = "delete"
    /\ bucket' = DelBeforeID(bucket, DeleteID(dbuf))
    /\ dbuf' = <<>>
    /\ dpc' = DRet
    /\ UNCHANGED <<qvars, chans, dying, wvars, rvars, dexit, env, hist>>

\* delete, lines 336-338: DelBeforeID fails; the buffer is cleared as well
DeleteFail ==
    /\ dpc = "delete"
    /\ dbuf' = <<>>
    /\ dpc' = DRet
    /\ UNCHANGED <<qvars, chans, dying, bucket, wvars, rvars, dexit, env, hist>>

\* clean, lines 378-385: the index of the first batch whose last event is
\* not expired, 0 when there is none (Go indexes from 0)
Threshold == now - ExpireTime
Live(batch, T) == Last(batch.data).ts >= T
CleanIndex(c, T) ==
    IF \E i \in 1..Len(c) : Live(c[i], T)
    THEN (CHOOSE i \in 1..Len(c) :
              Live(c[i], T) /\ \A j \in 1..(i - 1) : ~Live(c[j], T)) - 1
    ELSE 0
CleanCache(c, T) == SubSeq(c, CleanIndex(c, T) + 1, Len(c))

\* case <-cleanTimer.C: clean(), the critical section
CleanLock ==
    /\ dpc = "select"
    /\ cache' = CleanCache(cache, Threshold)
    /\ dpc' = "clean"
    /\ UNCHANGED <<offset, disable, chans, dying, bucket, wvars, rvars, dbuf,
                   dexit, env, hist>>

\* clean, line 388: DelBeforeTS with the threshold of a second time.Now()
CleanStore ==
    /\ dpc = "clean"
    /\ bucket' = DelBeforeTS(bucket, Threshold)
    /\ swept' = swept \cup {r.eid : r \in bucket \ bucket'}
    /\ dpc' = "select"
    /\ UNCHANGED <<qvars, chans, dying, wvars, rvars, dbuf, dexit, env,
                   putEids, doneFired, stamped, openMax, prevMax, maxSent, failed,
                   killInput, killEdel>>

\* clean, lines 389-391: DelBeforeTS fails
CleanStoreFail ==
    /\ dpc = "clean"
    /\ dpc' = "select"
    /\ UNCHANGED <<qvars, chans, dying, bucket, wvars, rvars, dbuf, dexit,
                   env, hist>>

\* ------------------------------------------------------ the consumer
\* Pop / <-Chan(): case e := <-q.output
Pop ==
    /\ output # <<>>
    /\ output' = Tail(output)
    /\ unacked' = unacked \cup {Head(output).id}
    /\ UNCHANGED <<qvars, input, edel, eget, dying, bucket, wvars, rvars,
                   dvars, now, nextEid, cpc, cclean, cerr,
                   opens, hist>>

\* acknowledge(id): case q.edel <- id
Acknowledge ==
    /\ \E id \in unacked :
          /\ Len(edel) < BatchSize
          /\ edel' = Append(edel, id)
          /\ unacked' = unacked \ {id}
    /\ UNCHANGED <<qvars, input, output, eget, dying, bucket, wvars, rvars,
                   dvars, now, nextEid, cpc, cclean, cerr,
                   opens, hist>>

\* acknowledge(id): case <-q.Dying(), the acknowledgement is dropped
AcknowledgeClosed ==
    /\ dying
    /\ \E id \in unacked : unacked' = unacked \ {id}
    /\ UNCHANGED <<qvars, chans, dying, bucket, wvars, rvars, dvars, now,
                   nextEid, cpc, cclean, cerr,
                   opens, hist>>

\* ------------------------------------------- Disable, the clock, Close
Disable ==
    /\ ~disable
    /\ disable' = TRUE
    /\ UNCHANGED <<offset, cache, chans, dying, bucket, wvars, rvars, dvars,
                   env, hist>>

Tick ==
    /\ now < MaxNow
    /\ now' = now + 1
    /\ UNCHANGED <<qvars, chans, dying, bucket, wvars, rvars, dvars, nextEid,
                   unacked, cpc, cclean, cerr,
                   opens, hist>>

\* Close, line 407: q.Kill(nil)
CloseKill ==
    /\ cpc = "open"
    /\ dying' = TRUE
    /\ cpc' = "waiting"
    /\ killInput' = Len(input)
    /\ killEdel' = Len(edel)
    /\ UNCHANGED <<qvars, chans, bucket, wvars, rvars, dvars, now, nextEid,
                   unacked, cclean, cerr, opens, putEids, doneFired, stamped,
                   openMax, prevMax, maxSent, swept, failed>>

\* Close, lines 408-412: q.Wait() returns when the three workers have
\* returned, then bucket.Close(clean); clean is the argument of Close, which
\* nothing reads before this call
CloseWait ==
    /\ cpc = "waiting"
    /\ wpc = "exited" /\ rpc = "exited" /\ dpc = "exited"
    /\ \E clean \in BOOLEAN :
          /\ cclean' = clean
          /\ bucket' = BucketClose(bucket, clean)
          /\ cerr' = BucketCloseErr(TRUE, clean)
    /\ cpc' = "closed"
    /\ killInput' = 0 /\ killEdel' = 0
    /\ UNCHANGED <<qvars, chans, dying, wvars, rvars, dvars, now, nextEid,
                   unacked, opens, putEids, doneFired, stamped, openMax, prevMax,
                   maxSent, swept, failed>>

\* Close called again on the closed queue, one after the other or by a second
\* caller that waited with the first: Kill and Wait return at once, then
\* bucket.Close(clean) with the same flag; the namespace is gone if the first
\* call cleaned.  The queue is left as it is.
CloseAgain ==
    /\ cpc = "closed"
    /\ bucket' = BucketClose(bucket, cclean)
    /\ cerr' = BucketCloseErr(~cclean, cclean)
    /\ UNCHANGED <<qvars, chans, dying, wvars, rvars, dvars, now, nextEid,
                   unacked, cpc, cclean, opens, hist>>

\* NewPersistence over the bucket of the closed queue (lines 52-74); the
\* store creates the namespace if it does not exist
Reopen ==
    /\ cpc = "closed" /\ opens < MaxOpens
    /\ opens' = opens + 1
    /\ offset' = MaxOffset(bucket) /\ cache' = <<>> /\ disable' = FALSE
    /\ input' = <<>> /\ output' = <<>> /\ edel' = <<>> /\ eget' = TRUE
    /\ dying' = FALSE
    /\ wpc' = "select" /\ wbuf' = <<>> /\ wexit' = FALSE
    /\ rpc' = "start" /\ begin' = 0 /\ rend' = 0 /\ rbuf' = <<>>
    /\ dpc' = "select" /\ dbuf' = <<>> /\ dexit' = FALSE
    /\ unacked' = {}
    /\ cpc' = "open" /\ cclean' = FALSE /\ cerr' = FALSE
    /\ stamped' = <<>> /\ openMax' = MaxOffset(bucket)
    /\ prevMax' = IF cclean THEN 0 ELSE Max({prevMax} \cup Range(stamped))
    /\ maxSent' = 0
    /\ UNCHANGED <<bucket, now, nextEid, putEids, doneFired, swept, failed,
                   killInput, killEdel>>

\* ------------------------------------------------------ specifications
\* One open queue: the workers, the producers, the consumer, the clock,
\* store failures, Disable and Close
Next ==
    \/ PushSend \/ PushClosed
    \/ WritingRecv \/ WritingTimeout \/ WritingDying
    \/ AddPut \/ AddFail \/ AddDone \/ AddLock \/ AddTrigger
    \/ ReadingStart \/ ReadingStartFail \/ ReadingPump \/ ReadingGet
    \/ ReadingGetFail \/ ReadingSend \/ ReadingDying
    \/ DeletingRecv \/ DeletingTimeout \/ DeletingDying \/ Delete \/ DeleteFail
    \/ CleanLock \/ CleanStore \/ CleanStoreFail
    \/ Pop \/ Acknowledge \/ AcknowledgeClosed
    \/ Disable \/ Tick \/ CloseKill \/ CloseWait \/ CloseAgain

Spec == Init /\ [][Next]_vars

\* The same, and the bucket of a closed queue is opened again
ReopenNext == Next \/ Reopen

ReopenSpec == Init /\ [][ReopenNext]_vars

\* A queue that is not closed, over a store that does not fail, with a
\* consumer that keeps draining output.  The workers are goroutines, their
\* timers and the ticker fire, so every step of a worker that stays possible
\* is taken.
LiveNext ==
    \/ PushSend
    \/ WritingRecv \/ WritingTimeout
    \/ AddPut \/ AddDone \/ AddLock \/ AddTrigger
    \/ ReadingStart \/ ReadingPump \/ ReadingGet \/ ReadingSend
    \/ DeletingRecv \/ DeletingTimeout \/ Delete
    \/ CleanLock \/ CleanStore
    \/ Pop \/ Acknowledge
    \/ Tick

LiveFair ==
    /\ WF_vars(WritingRecv) /\ WF_vars(WritingTimeout)
    /\ WF_vars(AddPut) /\ WF_vars(AddDone) /\ WF_vars(AddLock)
    /\ WF_vars(AddTrigger)
    /\ WF_vars(ReadingStart) /\ WF_vars(ReadingPump) /\ WF_vars(ReadingGet)
    /\ WF_vars(ReadingSend)
    /\ WF_vars(DeletingRecv) /\ WF_vars(DeletingTimeout) /\ WF_vars(Delete)
    /\ WF_vars(CleanLock) /\ WF_vars(CleanStore)
    /\ WF_vars(Pop)

LiveSpec == Init /\ [][LiveNext]_vars /\ LiveFair

\* The same queue with a consumer that may stop draining output for good:
\* only the workers are bound to run
StallFair ==
    /\ WF_vars(WritingRecv) /\ WF_vars(WritingTimeout)
    /\ WF_vars(AddPut) /\ WF_vars(AddDone) /\ WF_vars(AddLock)
    /\ WF_vars(AddTrigger)
    /\ WF_vars(ReadingStart) /\ WF_vars(ReadingPump) /\ WF_vars(ReadingGet)
    /\ WF_vars(ReadingSend)
    /\ WF_vars(DeletingRecv) /\ WF_vars(DeletingTimeout) /\ WF_vars(Delete)
    /\ WF_vars(CleanLock) /\ WF_vars(CleanStore)

StallSpec == Init /\ [][LiveNext]_vars /\ StallFair

\* The queue with Close, with store failures and Disable, at one instant of
\* the wall clock (the ticker fires, and no event is old enough to expire)
CloseNext ==
    \/ PushSend \/ PushClosed
    \/ WritingRecv \/ WritingTimeout \/ WritingDying
    \/ AddPut \/ AddFail \/ AddDone \/ AddLock \/ AddTrigger
    \/ ReadingStart \/ ReadingStartFail \/ ReadingPump \/ ReadingGet
    \/ ReadingGetFail \/ ReadingSend \/ ReadingDying
    \/ DeletingRecv \/ DeletingTimeout \/ DeletingDying \/ Delete \/ DeleteFail
    \/ CleanLock \/ CleanStore \/ CleanStoreFail
    \/ Pop \/ Acknowledge \/ AcknowledgeClosed
    \/ Disable \/ CloseKill \/ CloseWait

\* Its workers keep running: a call
\* of the bucket returns (with a result or an error), a step of add or clean
\* that is possible is taken, and a select whose Dying case is ready again
\* and again takes it in the end (Go chooses among the ready cases at
\* random).  Producers, the consumer, the clock, Disable and the caller of
\* Close are free to act or not; Wait returns once the workers have.
CloseFair ==
    /\ WF_vars(WritingRecv) /\ WF_vars(WritingTimeout)
    /\ WF_vars(AddPut \/ AddFail) /\ WF_vars(AddDone) /\ WF_vars(AddLock)
    /\ WF_vars(AddTrigger)
    /\ SF_vars(WritingDying)
    /\ WF_vars(ReadingStart \/ ReadingStartFail)
    /\ WF_vars(ReadingGet \/ ReadingGetFail)
    /\ SF_vars(ReadingDying)
    /\ WF_vars(Delete \/ DeleteFail)
    /\ WF_vars(CleanStore \/ CleanStoreFail)
    /\ SF_vars(DeletingDying)
    /\ WF_vars(CloseWait)

CloseSpec == Init /\ [][CloseNext]_vars /\ CloseFair

\* The queue over a store whose reads succeed and from which no record is
\* removed: MinOffset and the range reads return, every acknowledgement flush
\* and every expiry sweep fails at the store (the sweep still trims the
\* cache).  Producers, the consumer, the clock, Disable, Close and the next
\* open are as before.
WakeNext ==
    \/ PushSend \/ PushClosed
    \/ WritingRecv \/ WritingTimeout \/ WritingDying
    \/ AddPut \/ AddFail \/ AddDone \/ AddLock \/ AddTrigger
    \/ ReadingStart \/ ReadingPump \/ ReadingGet \/ ReadingSend \/ ReadingDying
    \/ DeletingRecv \/ DeletingTimeout \/ DeletingDying \/ DeleteFail
    \/ CleanLock \/ CleanStoreFail
    \/ Pop \/ Acknowledge \/ AcknowledgeClosed
    \/ Disable \/ Tick \/ CloseKill \/ CloseWait \/ Reopen

WakeSpec == Init /\ [][WakeNext]_vars

\* ================================================================ claims

\* C1: the offsets of the events sent on the egress channel of one open queue
\* are strictly ascending: every event the reader sends has an offset
\* greater than every offset it sent before.
OrderedEgress ==
    [][Len(output') > Len(output) => Last(output').id > maxSent]_vars

\* three events were delivered, after an acknowledgement flush and a sweep
OrderedEgressWitness ==
    /\ maxSent = 3 /\ Len(output) = 1
    /\ unacked # {} /\ swept # {}

\* C2: the k-th event persisted by a successful put of one open queue gets
\* the offset (max_offset at open) + k.
GapFreeOffsets ==
    \A k \in 1..Len(stamped) : stamped[k] = openMax + k

\* C3: after Close(clean=false) and a reopen over the same bucket every
\* newly assigned offset is greater than every offset assigned before.
NoOffsetReuse ==
    \A k \in 1..Len(stamped) : stamped[k] > prevMax

\* C4: every event on the egress channel was stored by a put that succeeded
\* and the Done of its producer's event has been called.
DurableBeforeDelivery ==
    \A i \in 1..Len(output) :
        output[i].eid \in putEids /\ output[i].eid \in doneFired

\* an event is on the egress channel while the writer is between the Put of
\* a later batch and the Done calls of that batch
DurableBeforeDeliveryWitness ==
    /\ output # <<>>
    /\ wpc = "done"
    /\ \E r \in bucket : r.eid \notin doneFired

\* C5: while the queue is open, the store works and the consumer drains the
\* egress channel, every event that Push has put on the ingress channel is
\* eventually sent on the egress channel unless an expiry sweep removed it.
Accepted(e) == \E i \in 1..Len(input) : input[i].eid = e
Emitted(e) == \E i \in 1..Len(output) : output[i].eid = e
EventualDelivery ==
    \A e \in 1..MaxEvents : Accepted(e) ~> (Emitted(e) \/ e \in swept)

\* C6: when delete has flushed a buffer of acknowledgements whose greatest
\* offset is M and DelBeforeID succeeded, no offset <= M is left in the
\* bucket.
PrefixDeletion ==
    [][Delete => \A r \in bucket' : r.id > Max(Range(dbuf))]_vars

\* C7: the records left in the bucket by the flush of an acknowledgement
\* buffer are the same for every order in which its acknowledgements
\* arrived.
Orderings(s) ==
    {[i \in 1..Len(s) |-> s[f[i]]] :
        f \in {g \in [1..Len(s) -> 1..Len(s)] :
                  \A a, b \in 1..Len(s) : a # b => g[a] # g[b]}}
AckOrderIrrelevant ==
    dpc = "delete" =>
        \A p \in Orderings(dbuf) :
            DelBeforeID(bucket, DeleteID(p)) = DelBeforeID(bucket, DeleteID(dbuf))

\* C8: no event that a completed expiry sweep removed is fetched by a later
\* pump, from the cache or from the store.
Fetch == rpc # "send" /\ rpc' = "send"
ExpiryCorrect ==
    [][Fetch => \A i \in 1..Len(rbuf') : rbuf'[i].eid \notin swept]_vars

\* C9: after Close has signalled the dying token no Push enqueues an event
\* and no Pop returns one.
ClosedRejects ==
    [][(cpc # "open" /\ dying) => ~PushSend /\ ~Pop]_vars

\* C10: when Close returns, the events that were waiting in the ingress
\* channel when Close was called are persisted and their Done was called
\* (unless their flush failed), and the acknowledgements that were waiting
\* in the ack channel have been handed to delete.
ShutdownFlush ==
    [][CloseWait =>
          /\ \A i \in 1..killInput :
                \/ input[i].eid \in failed
                \/ input[i].eid \in putEids /\ input[i].eid \in doneFired
          /\ killEdel = 0]_vars

\* C11: once Close has called Kill the dying signal stays set, so the Dying
\* case of every blocked Push, Pop and acknowledge is ready, and whatever the
\* channels hold the three workers exit and Close returns after closing the
\* bucket.
CloseTerminates ==
    /\ [](cpc # "open" => dying)
    /\ (cpc = "waiting") ~>
           (cpc = "closed" /\ wpc = "exited" /\ rpc = "exited" /\ dpc = "exited")

\* Close has returned although the egress channel was full and the reader
\* was blocked in its send loop with an event in hand
CloseTerminatesWitness ==
    /\ cpc = "closed"
    /\ Len(output) = BatchSize /\ rbuf # <<>>

\* C12: no failure of a bucket operation makes a worker exit or sets the
\* dying signal: as long as Close has not been called the three workers run
\* and the queue is not dying.
StoreFailuresNotFatal ==
    cpc = "open" =>
        /\ ~dying
        /\ wpc # "exited" /\ rpc # "exited" /\ dpc # "exited"

\* C13: a flush whose encoding or put fails leaves the offset, the cache and
\* the pending pump as they were, fires no Done and drops the buffer; no
\* event of a failed flush is ever cached or Done, and the next flush stamps
\* its events from offset + 1.
FailedFlushInvisible ==
    /\ [][AddFail =>
            /\ offset' = offset /\ cache' = cache
            /\ doneFired' = doneFired /\ eget' = eget
            /\ wbuf' = <<>> /\ wpc' \in {"select", "exited"}]_vars
    /\ [](\A e \in failed :
            /\ e \notin doneFired /\ e \notin putEids
            /\ \A i \in 1..Len(cache) : e \notin Eids(cache[i].data))
    /\ [](wpc = "add" => Stamp(wbuf, offset)[1].id = offset + 1)

\* the flush of event 1 failed and the next flush stored event 2 under the
\* offset the failed flush would have used
FailedFlushInvisibleWitness ==
    /\ failed = {1}
    /\ \E r \in bucket : r.eid = 2 /\ r.id = 1
    /\ 2 \in doneFired

\* C14: Close(clean=true) leaves the bucket empty and Close(clean=false)
\* leaves it as it is, as does the next open; the bucket changes only by a
\* successful put (which adds records), an acknowledgement flush or an expiry
\* sweep (which remove records) and a cleaning Close, so the records found at
\* the next open are the persisted ones that were neither deleted nor swept,
\* unchanged.
CloseSemantics ==
    /\ [][CloseWait => bucket' = IF cclean' THEN {} ELSE bucket]_vars
    /\ [][Reopen => bucket' = bucket]_vars
    /\ [][bucket' # bucket =>
            \/ AddPut /\ bucket \subseteq bucket'
            \/ (Delete \/ CleanStore) /\ bucket' \subseteq bucket
            \/ CloseWait /\ cclean' /\ bucket' = {}]_vars
    /\ [](\A r \in bucket : r.eid \in putEids /\ r.eid \notin swept)

\* the queue was closed without cleaning and opened again over a bucket in
\* which one record survived a sweep that removed another
CloseSemanticsWitness ==
    /\ opens = 2 /\ stamped = <<>>
    /\ bucket # {} /\ swept # {}

\* C15: a second Close of a closed queue, with the flag of the first, returns
\* no error and leaves the bucket and the queue as the first call left them.
CloseIdempotent ==
    [][CloseAgain => ~cerr' /\ bucket' = bucket /\ cpc' = "closed"]_vars

\* C16: whenever the batcher is not inside a flush, the offset of the queue is
\* the greatest offset successfully written to the bucket since the queue
\* opened (the greatest offset of the bucket at open if there was no write):
\* every successful put of n events has advanced it by n.
OffsetTracksPuts ==
    wpc \in {"select", "add", "exited"} =>
        offset = Max({openMax} \cup Range(stamped))

\* C17: the cache holds at most MaxBatchCacheSize batches; every cached batch
\* has between 1 and BatchSize events, with consecutive offsets from the
\* offset recorded for the batch, all stored by a put that succeeded and none
\* above the offset of the queue; once disable is set the cache never grows.
CacheWellFormed ==
    /\ [](Len(cache) <= MaxBatchCacheSize)
    /\ [](\A i \in 1..Len(cache) :
            /\ Len(cache[i].data) \in 1..BatchSize
            /\ \A k \in 1..Len(cache[i].data) :
                  /\ cache[i].data[k].id = cache[i].offset + k - 1
                  /\ cache[i].data[k].eid \in putEids
                  /\ cache[i].data[k].id <= offset)
    /\ [][disable => Len(cache') <= Len(cache)]_vars

\* a batch is cached, Disable was called, and a later batch was stored
\* without being cached
CacheWellFormedWitness ==
    /\ disable /\ cache # <<>>
    /\ \E r \in bucket : r.id > Last(Last(cache).data).id

RECURSIVE TrimHead(_, _)
TrimHead(c, T) ==
    IF c = <<>> THEN <<>>
    ELSE IF Last(c[1].data).ts < T THEN TrimHead(Tail(c), T)
    ELSE c
ExpiryTrimsHead ==
    [][CleanLock => cache' = TrimHead(cache, Threshold)]_vars

ReaderCursor ==
    rpc \in {"idle", "get", "send"} =>
        /\ 1 <= begin /\ begin <= offset + 1
        /\ cache # <<>> => begin <= cache[1].offset
        /\ rpc = "get" => begin <= rend

\* C22: over a store whose reads succeed and from which nothing is removed,
\* whenever the reader waits for a pump while begin <= offset, a pump is
\* pending in the trigger channel.
PumpPending ==
    (rpc = "idle" /\ begin <= offset) => eget

\* C22 as amended: whenever the reader waits for a pump while begin <= offset,
\* a pump is pending in the trigger channel or the batcher has just advanced
\* the offset and its next step posts the pump; the batcher's trigger always
\* leaves a pump pending, whatever the reader is doing, and a pending pump is
\* taken from the channel by the reader's pump only.
NoLostWakeup ==
    /\ []((rpc = "idle" /\ begin <= offset) => (eget \/ wpc = "trigger"))
    /\ [][AddTrigger => eget']_vars
    /\ [][(eget /\ ~eget') => ReadingPump]_vars

\* a pump reads the store while the batcher has cached a later batch and
\* posted its trigger: the pending pump covers offsets beyond the range of
\* the running one
NoLostWakeupWitness ==
    /\ rpc = "get" /\ eget
    /\ rend <= offset /\ cache # <<>>
    /\ wpc = "select"

====
